---- MODULE Spec2Model ----
(***************************************************************************)
(* A model of automator/connector/ADBClientSession.py: one client Session  *)
(* (one TCP connection to the ADB server), its framed service requests,    *)
(* the blocking/streaming command executors and the sync push sequence.    *)
(*                                                                         *)
(* Bytes are integers 0..255.  A byte string ("blob") is a sequence of     *)
(* pieces; a piece is either a literal run of bytes or a window [lo, hi)   *)
(* of a named opaque source (the push buffer, a long command body), so     *)
(* that the 65536-byte chunk size and the 4-hex-digit limit keep their     *)
(* real values.  Wide integers (mtime) are kept as 16-bit halves because   *)
(* the values of interest reach past 2^31.                                 *)
(***************************************************************************)
EXTENDS Integers, Sequences, FiniteSets, TLC

\* ---------------------------------------------------------------- bounds
MaxCalls == 2        \* operations issued on the one Session
MaxShortWrite == 1   \* a short socket.send accepts 1..MaxShortWrite bytes
MaxChunks == 2       \* push buffers hold up to MaxChunks full chunks + a tail

\* ------------------------------------------------------ program constants
ChunkSize == 65536   \* np.arange(65536, size, 65536)
HexWidth == 4        \* b'%04X%b'
StatusLen == 4       \* _check_okay: recvexactly(sock, 4)
LenFieldLen == 4     \* _read_hexlen: recvexactly(sock, 4)
FinalLen == 8        \* recvexactly(self.sock, 8)
DefaultMode == 33261 \* mode=0o100755

\* ------------------------------------------------------------ ASCII text
OKAY == <<79, 75, 65, 89>>
FAIL == <<70, 65, 73, 76>>
SEND == <<83, 69, 78, 68>>
DATA == <<68, 65, 84, 65>>
DONE == <<68, 79, 78, 69>>
SyncCmd == <<115, 121, 110, 99, 58>>                        \* 'sync:'
ExecPrefix == <<101, 120, 101, 99, 58>>                     \* 'exec:'
ShellPrefix == <<115, 104, 101, 108, 108, 58>>              \* 'shell:'
TransportAny == <<104, 111, 115, 116, 58, 116, 114, 97, 110, 115, 112, 111,
                  114, 116, 45, 97, 110, 121>>              \* 'host:transport-any'
TransportPrefix == <<104, 111, 115, 116, 58, 116, 114, 97, 110, 115, 112,
                     111, 114, 116, 58>>                    \* 'host:transport:'
TransportUsb == <<104, 111, 115, 116, 58, 116, 114, 97, 110, 115, 112, 111,
                  114, 116, 45, 117, 115, 98>>              \* 'host:transport-usb'
TransportLocal == <<104, 111, 115, 116, 58, 116, 114, 97, 110, 115, 112, 111,
                    114, 116, 45, 108, 111, 99, 97, 108>>   \* 'host:transport-local'
ConnectPrefix == <<104, 111, 115, 116, 58, 99, 111, 110, 110, 101, 99, 116, 58>>  \* 'host:connect:'
DisconnectPrefix == <<104, 111, 115, 116, 58, 100, 105, 115, 99, 111, 110, 110,
                      101, 99, 116, 58>>                    \* 'host:disconnect:'
HostDevices == <<104, 111, 115, 116, 58, 100, 101, 118, 105, 99, 101, 115>>  \* 'host:devices'
Unable == <<117, 110, 97, 98, 108, 101>>                    \* 'unable'
Cannot == <<99, 97, 110, 110, 111, 116>>                    \* 'cannot'
PushFailed == <<112, 117, 115, 104, 32, 102, 97, 105, 108, 101, 100>>  \* 'push failed'
Comma == <<44>>

\* ----------------------------------------------------------------- blobs
\* A literal run of bytes (or of code points, for a str).
Lit(s) == IF s = <<>> THEN <<>>
          ELSE <<[src |-> "lit", lo |-> 0, hi |-> Len(s), b |-> s]>>

\* The window [lo, hi) of the opaque source src (ASCII filler bytes).
Window(src, lo, hi) == IF hi <= lo THEN <<>>
                       ELSE <<[src |-> src, lo |-> lo, hi |-> hi, b |-> <<>>]>>

\* len() of a blob.
BLen(x) ==
    LET f[i \in 0..Len(x)] == IF i = 0 THEN 0 ELSE f[i - 1] + (x[i].hi - x[i].lo)
    IN  f[Len(x)]

\* Two pieces that are one run: two literals, or two adjoining windows.
Joins(p, q) == /\ p.src = q.src
               /\ (p.src = "lit" \/ p.hi = q.lo)

JoinPieces(p, q) == IF p.src = "lit"
                    THEN [src |-> "lit", lo |-> 0, hi |-> p.hi + q.hi, b |-> p.b \o q.b]
                    ELSE [src |-> p.src, lo |-> p.lo, hi |-> q.hi, b |-> <<>>]

\* a + b on bytes / str, in canonical form (adjoining runs merged).
Cat(x, y) ==
    IF x = <<>> THEN y
    ELSE IF y = <<>> THEN x
    ELSE IF Joins(x[Len(x)], y[1])
         THEN SubSeq(x, 1, Len(x) - 1) \o <<JoinPieces(x[Len(x)], y[1])>> \o Tail(y)
         ELSE x \o y

\* x[:k]
RECURSIVE Take(_, _)
Take(x, k) ==
    IF k <= 0 \/ x = <<>> THEN <<>>
    ELSE LET p == x[1]
             n == p.hi - p.lo
         IN  IF k >= n THEN <<p>> \o Take(Tail(x), k - n)
             ELSE IF p.src = "lit"
                  THEN <<[src |-> "lit", lo |-> 0, hi |-> k, b |-> SubSeq(p.b, 1, k)]>>
                  ELSE <<[src |-> p.src, lo |-> p.lo, hi |-> p.lo + k, b |-> <<>>]>>

\* x[k:]
RECURSIVE Drop(_, _)
Drop(x, k) ==
    IF x = <<>> THEN <<>>
    ELSE IF k <= 0 THEN x
    ELSE LET p == x[1]
             n == p.hi - p.lo
         IN  IF k >= n THEN Drop(Tail(x), k - n)
             ELSE IF p.src = "lit"
                  THEN <<[src |-> "lit", lo |-> 0, hi |-> n - k,
                          b |-> SubSeq(p.b, k + 1, n)]>> \o Tail(x)
                  ELSE <<[src |-> p.src, lo |-> p.lo + k, hi |-> p.hi, b |-> <<>>]>>
                       \o Tail(x)

\* ------------------------------------------------------------- encodings
\* str.encode(): UTF-8.  A code point below 128 is one byte, one below 2048
\* is two; the opaque windows stand for ASCII text and encode to themselves.
RECURSIVE Utf8(_)
Utf8(s) ==
    IF s = <<>> THEN <<>>
    ELSE (IF s[1] < 128 THEN <<s[1]>>
          ELSE <<192 + (s[1] \div 64), 128 + (s[1] % 64)>>) \o Utf8(Tail(s))

RECURSIVE Encode(_)
Encode(x) ==
    IF x = <<>> THEN <<>>
    ELSE Cat(IF x[1].src = "lit" THEN Lit(Utf8(x[1].b)) ELSE <<x[1]>>,
             Encode(Tail(x)))

HexDigit(d) == IF d < 10 THEN 48 + d ELSE 55 + d

RECURSIVE HexDigits(_)
HexDigits(n) == IF n < 16 THEN <<HexDigit(n)>>
                ELSE HexDigits(n \div 16) \o <<HexDigit(n % 16)>>

RECURSIVE ZeroPad(_, _)
ZeroPad(s, w) == IF Len(s) >= w THEN s ELSE ZeroPad(<<48>> \o s, w)

\* b'%04X' % n : at least HexWidth upper-case digits, more when n needs them.
FormatHex(n) == ZeroPad(HexDigits(n), HexWidth)

RECURSIVE DecDigits(_)
DecDigits(n) == IF n < 10 THEN <<48 + n>>
                ELSE DecDigits(n \div 10) \o <<48 + (n % 10)>>

\* b'%d' % n, n >= 0
FormatDec(n) == DecDigits(n)

IsHexByte(c) == \/ c \in 48..57
                \/ c \in 65..70
                \/ c \in 97..102

HexVal(c) == IF c \in 48..57 THEN c - 48
             ELSE IF c \in 65..70 THEN c - 55
             ELSE c - 87

\* int(s, 16) accepts s (over the byte alphabet of the model's replies).
IntAccepts(s) == /\ Len(s) > 0
                 /\ \A i \in 1..Len(s) : IsHexByte(s[i])

RECURSIVE IntBase16(_)
IntBase16(s) == IF s = <<>> THEN 0
                ELSE 16 * IntBase16(SubSeq(s, 1, Len(s) - 1)) + HexVal(s[Len(s)])

\* A wide integer as 16-bit halves: value = hi * 65536 + lo, 0 <= lo < 65536.
Wide(n) == [hi |-> n \div 65536, lo |-> n % 65536]

\* struct.pack("<I", w) raises struct.error unless 0 <= w <= 2^32 - 1.
PackFits(w) == w.hi >= 0 /\ w.hi < 65536

\* struct.pack("<I", w): four bytes, least significant first.
PackLE32(w) == <<w.lo % 256, w.lo \div 256, w.hi % 256, w.hi \div 256>>

\* A byte that continues a UTF-8 sequence.
IsContinuation(c) == c \in 128..191

\* A byte that opens a two-byte UTF-8 sequence.
IsLead2(c) == c \in 194..223

\* bytes.decode(errors='ignore'): UTF-8 with every undecodable byte dropped
\* (one- and two-byte sequences; the model's replies hold no longer ones).
RECURSIVE DecodeIgnore(_)
DecodeIgnore(s) ==
    IF s = <<>> THEN <<>>
    ELSE IF s[1] < 128 THEN <<s[1]>> \o DecodeIgnore(Tail(s))
    ELSE IF IsLead2(s[1]) /\ Len(s) >= 2 /\ IsContinuation(s[2])
         THEN <<(s[1] - 192) * 64 + (s[2] - 128)>> \o DecodeIgnore(SubSeq(s, 3, Len(s)))
         ELSE DecodeIgnore(Tail(s))

\* bytes.decode() succeeds: no byte would have to be dropped.
RECURSIVE Decodable(_)
Decodable(s) ==
    IF s = <<>> THEN TRUE
    ELSE IF s[1] < 128 THEN Decodable(Tail(s))
    ELSE IF IsLead2(s[1]) /\ Len(s) >= 2 /\ IsContinuation(s[2])
         THEN Decodable(SubSeq(s, 3, Len(s)))
         ELSE FALSE

\* sub in s, for two str
Contains(s, sub) ==
    \E i \in 1..(Len(s) - Len(sub) + 1) : SubSeq(s, i, i + Len(sub) - 1) = sub

\* A character str.splitlines() ends a line at.
IsLineBreak(c) == c \in {10, 11, 12, 13, 28, 29, 30, 133, 8232, 8233}

\* str.splitlines(): the lines without their ends; '\r\n' is one end and
\* the text after the last end is a line only when it is not empty.
RECURSIVE LinesFrom(_, _)
LinesFrom(s, cur) ==
    IF s = <<>> THEN (IF cur = <<>> THEN <<>> ELSE <<cur>>)
    ELSE IF IsLineBreak(s[1])
         THEN <<cur>> \o LinesFrom(IF s[1] = 13 /\ Len(s) >= 2 /\ s[2] = 10
                                   THEN SubSeq(s, 3, Len(s)) ELSE Tail(s), <<>>)
         ELSE LinesFrom(Tail(s), Append(cur, s[1]))

SplitLines(s) == LinesFrom(s, <<>>)

\* str.split(sep) for a one-character sep: always at least one field.
RECURSIVE FieldsFrom(_, _, _)
FieldsFrom(s, sep, cur) ==
    IF s = <<>> THEN <<cur>>
    ELSE IF s[1] = sep THEN <<cur>> \o FieldsFrom(Tail(s), sep, <<>>)
         ELSE FieldsFrom(Tail(s), sep, Append(cur, s[1]))

Split(s, sep) == FieldsFrom(s, sep, <<>>)

\* ------------------------------------------------------- pure functions
\* The frame with the prefix counting characters instead of encoded bytes.
ServiceFrameCharCount(cmd) == Cat(Lit(FormatHex(BLen(cmd))), Encode(cmd))

\* service, lines 42-43: the frame handed to the socket.
ServiceFrame(cmd) ==
    LET cmdbytes == Encode(cmd)
    IN  Cat(Lit(FormatHex(BLen(cmdbytes))), cmdbytes)

\* np.arange(start, stop, step), step > 0
Arange(start, stop, step) ==
    [i \in 1..(IF stop > start THEN (stop - start + step - 1) \div step ELSE 0)
        |-> start + (i - 1) * step]

\* np.array_split(ary, indices) for a sequence of indices: len(indices) + 1
\* sub-arrays, cut at div_points = [0] + indices + [Ntotal].
ArraySplit(ntotal, indices) ==
    LET div == <<0>> \o indices \o <<ntotal>>
    IN  [i \in 1..(Len(indices) + 1) |-> [lo |-> div[i], hi |-> div[i + 1]]]

\* The split with the cut points started at 0 instead of at one chunk.
PushChunksFromZero(size) == ArraySplit(size, Arange(0, size, ChunkSize))

\* push, line 121: the arrays the loop walks, as windows of the buffer.
PushChunks(size) == ArraySplit(size, Arange(ChunkSize, size, ChunkSize))

\* The packet with the buffer's capacity in the length field.
DataPacketFullLength(arr) ==
    Cat(Lit(DATA \o PackLE32(Wide(ChunkSize))), Window("buffer", arr.lo, arr.hi))

\* push, lines 119-124: sendbuf[0:8+len(arr)] for the sub-array arr.
DataPacket(arr) ==
    Cat(Lit(DATA \o PackLE32(Wide(arr.hi - arr.lo))),
        Window("buffer", arr.lo, arr.hi))

RECURSIVE OctDigits(_)
OctDigits(n) == IF n < 8 THEN <<48 + n>>
                ELSE OctDigits(n \div 8) \o <<48 + (n % 8)>>

\* The request string with mode written as octal text.
PushRequestOctal(path, mode) == Cat(Encode(path), Lit(Comma \o OctDigits(mode)))

\* push, line 116: b'%s,%d' % (target_path.encode(), mode)
PushRequest(path, mode) == Cat(Encode(path), Lit(Comma \o FormatDec(mode)))

\* push, line 117: b'SEND' + struct.pack("<I", len(request)) + request
SendPacket(path, mode) ==
    LET request == PushRequest(path, mode)
    IN  Cat(Lit(SEND \o PackLE32(Wide(BLen(request)))), request)

\* The DONE packet with mtime packed most significant byte first (">I").
DonePacketBigEndian(mtime) ==
    Lit(DONE \o <<mtime.hi \div 256, mtime.hi % 256, mtime.lo \div 256, mtime.lo % 256>>)

\* push, line 127: b'DONE' + struct.pack("<I", mtime)
DonePacket(mtime) == Lit(DONE \o PackLE32(mtime))

\* The guard that lets every command through.
NoCommandNever(cmd) == FALSE

\* The test that knows only one of the two failure words.
ReportsUnableOnly(resp) == Contains(resp, Unable)

\* connect / disconnect, lines 61 and 67: the text that reports a failure.
ReportsFailure(resp) == Contains(resp, Unable) \/ Contains(resp, Cannot)

\* The list built with resp.split('\n') in place of resp.splitlines().
DevicesListSplitNewline(resp) ==
    LET lines == Split(resp, 10)
    IN  [i \in 1..Len(lines) |-> Split(lines[i], 9)]

\* devices, line 55: [tuple(line.split('\t')) for line in resp.splitlines()]
DevicesList(resp) ==
    LET lines == SplitLines(resp)
    IN  [i \in 1..Len(lines) |-> Split(lines[i], 9)]

\* exec / shell, lines 91 and 105: the blocking variants refuse '' up front.
NoCommand(cmd) == BLen(cmd) = 0

\* ---------------------------------------------------------------- inputs
TextLs == <<108, 115>>                  \* 'ls'
TextNonAscii == <<108, 233>>            \* 'l' + U+00E9, two bytes in UTF-8
TextSerial == <<97, 98>>                \* 'ab'
TextPath == <<47, 102>>                 \* '/f'
TextPathNonAscii == <<47, 233>>         \* '/' + U+00E9, three bytes in UTF-8

Paths == {Lit(TextPath), Lit(TextPathNonAscii)}

\* Lengths of the long (opaque) command bodies: the largest that fits the
\* prefix and the first that does not.
FillLens == {16 ^ HexWidth - 1, 16 ^ HexWidth}

CmdArgs == {<<>>, Lit(TextLs), Lit(TextNonAscii)}
           \cup {Window("cmd", 0, n) : n \in FillLens}

DevIds == {<<>>, Lit(TextSerial)}       \* <<>> stands for devid=None

DevSpecs == {Lit(TextSerial)}           \* connect / disconnect device argument

BufferTails == {0, 18928}
BufferSizes == {k * ChunkSize + d : k \in 0..MaxChunks, d \in BufferTails}

NoMtime == [none |-> TRUE, hi |-> 0, lo |-> 0]                 \* mtime=None
Mtimes == {NoMtime,
           [none |-> FALSE, hi |-> 0, lo |-> 0],
           [none |-> FALSE, hi |-> 25000, lo |-> 4660],
           [none |-> FALSE, hi |-> 65535, lo |-> 65535],       \* 2^32 - 1
           [none |-> FALSE, hi |-> 65536, lo |-> 0]}           \* 2^32
Clock == {[none |-> FALSE, hi |-> 27000, lo |-> 1]}            \* int(time.time())

Modes == {DefaultMode, 420}

\* What the peer may send in answer to a request frame, then close.
ServiceReplies ==
    {<<>>, <<70, 65, 73>>, <<111, 107, 97, 121>>,
     OKAY,
     OKAY \o <<48, 48, 48, 48>>,
     OKAY \o <<48, 48, 48, 50, 104, 105>>,
     OKAY \o <<48, 48, 48, 50, 104>>,
     FAIL \o <<48, 48, 48, 48>>,
     FAIL \o <<48, 48, 48, 50, 104, 105>>,
     FAIL \o <<48, 48, 48, 50, 104>>,
     FAIL \o <<48, 48, 122, 122>>,
     FAIL \o <<48, 48, 48, 48, 120>>,
     OKAY \o <<48, 48, 48, 54>> \o Unable,
     OKAY \o <<48, 48, 48, 54>> \o Cannot,
     OKAY \o <<48, 48, 48, 55, 117, 110, 97, 255, 98, 108, 101>>,
     OKAY \o <<48, 48, 48, 56, 97, 9, 98, 10, 99, 9, 100, 10>>,
     OKAY \o <<48, 48, 48, 53, 97, 9, 98, 13, 99>>,
     OKAY \o <<48, 48, 48, 49, 104, 105>>,
     OKAY \o <<48, 48, 48, 48, 120>>}

\* What the peer may send in answer to 'sync:'.
SyncReplies ==
    {<<>>,
     OKAY,
     OKAY \o <<48, 48, 48, 50, 104, 105>>,
     FAIL \o <<48, 48, 48, 50, 104, 105>>,
     FAIL \o <<48, 48, 122, 122>>}

\* The peer answers a request frame it has received whole; one cut short
\* leaves it waiting for the rest, and it sends nothing before the
\* connection ends.
\* A 'sync:' request is answered by a status and at most a short text; the
\* payload-bearing answers belong to the host services.
PeerAnswers(cmd, whole) ==
    IF ~whole THEN {<<>>}
    ELSE IF cmd = Lit(SyncCmd) THEN SyncReplies
    ELSE ServiceReplies

\* What the peer may send after DONE, then close.
FinalReplies ==
    {OKAY \o <<0, 0, 0, 0>>,
     OKAY \o <<70, 65, 73, 76>>,
     FAIL \o <<0, 0, 0, 0>>,
     FAIL \o <<79, 75, 65, 89>>,
     OKAY \o <<0, 0, 0>>}

\* ----------------------------------------------------------------- state
VARIABLES
    pc,        \* where the current call stands ("idle": no call in progress)
    op,        \* the current call: method and arguments
    sockOpen,  \* self.sock has not been closed by this client
    inbuf,     \* bytes the peer has sent and the client has not yet received
    log,       \* the current call's socket events, in order
    result,    \* how the current call ended
    chunk,     \* push: index of the sub-array the loop is at
    calls,     \* calls issued so far
    handedOut  \* exec_stream / shell_stream has returned self.sock to the caller

vars == <<pc, op, sockOpen, inbuf, log, result, chunk, calls, handedOut>>

NoOp == [name |-> "", cmd |-> <<>>, size |-> 0, mode |-> 0, mtime |-> NoMtime]
NoResult == [kind |-> "none", exc |-> "", ret |-> "", val |-> <<>>, list |-> <<>>]
Returns(what, bytes) ==
    [kind |-> "return", exc |-> "", ret |-> what, val |-> bytes, list |-> <<>>]
Raises(exc, bytes) ==
    [kind |-> "raise", exc |-> exc, ret |-> "", val |-> bytes, list |-> <<>>]
ReturnsList(tuples) ==
    [kind |-> "return", exc |-> "", ret |-> "list", val |-> <<>>, list |-> tuples]

Write(tag, data, k) == [ev |-> "write", tag |-> tag, data |-> data, n |-> k]
Read(got, want) == [ev |-> "read", tag |-> "", data |-> Lit(got), n |-> want]
Close == [ev |-> "close", tag |-> "", data |-> <<>>, n |-> 0]

Init ==
    /\ pc = "idle"
    /\ op = NoOp
    /\ sockOpen = TRUE
    /\ inbuf = <<>>
    /\ log = <<>>
    /\ result = NoResult
    /\ chunk = 0
    /\ calls = 0
    /\ handedOut = FALSE

\* ------------------------------------------------------------ the socket
\* socket.send(data) on n bytes returns how many it took: all, or fewer.
SendAccepts(n) == {n} \cup {k \in 1..MaxShortWrite : k < n}

\* recvexactly(sock, n) can deliver: the socket is open and the peer sent
\* n bytes before closing.
RecvDelivers(buf, n) == sockOpen /\ Len(buf) >= n

\* _read_hexlen without line 20: the payload read is made for length 0 too.
ReadHexlenAlwaysReads(buf) ==
    IF ~RecvDelivers(buf, LenFieldLen)
    THEN [res |-> Raises("RecvError", <<>>), reads |-> <<Read(buf, LenFieldLen)>>,
          rest |-> <<>>]
    ELSE LET field == SubSeq(buf, 1, LenFieldLen)
             after == SubSeq(buf, LenFieldLen + 1, Len(buf))
             first == <<Read(field, LenFieldLen)>>
         IN  IF ~IntAccepts(field)
             THEN [res |-> Raises("ValueError", <<>>), reads |-> first, rest |-> after]
             ELSE LET textlen == IntBase16(field)
                  IN  IF ~RecvDelivers(after, textlen)
                      THEN [res |-> Raises("RecvError", <<>>),
                            reads |-> first \o <<Read(after, textlen)>>,
                            rest |-> <<>>]
                      ELSE [res |-> Returns("bytes", SubSeq(after, 1, textlen)),
                            reads |-> first \o <<Read(SubSeq(after, 1, textlen), textlen)>>,
                            rest |-> SubSeq(after, textlen + 1, Len(after))]

\* _read_hexlen(sock) on the pending bytes buf: what it returns or raises,
\* the recvexactly calls it made and what is left pending.
ReadHexlen(buf) ==
    IF ~RecvDelivers(buf, LenFieldLen)
    THEN [res |-> Raises("RecvError", <<>>), reads |-> <<Read(buf, LenFieldLen)>>,
          rest |-> <<>>]
    ELSE LET field == SubSeq(buf, 1, LenFieldLen)
             after == SubSeq(buf, LenFieldLen + 1, Len(buf))
             first == <<Read(field, LenFieldLen)>>
         IN  IF ~IntAccepts(field)
             THEN [res |-> Raises("ValueError", <<>>), reads |-> first, rest |-> after]
             ELSE LET textlen == IntBase16(field)
                  IN  IF textlen = 0
                      THEN [res |-> Returns("bytes", <<>>), reads |-> first,
                            rest |-> after]
                      ELSE IF ~RecvDelivers(after, textlen)
                      THEN [res |-> Raises("RecvError", <<>>),
                            reads |-> first \o <<Read(after, textlen)>>,
                            rest |-> <<>>]
                      ELSE [res |-> Returns("bytes", SubSeq(after, 1, textlen)),
                            reads |-> first \o <<Read(SubSeq(after, 1, textlen), textlen)>>,
                            rest |-> SubSeq(after, textlen + 1, Len(after))]

\* --------------------------------------------------------------- service
\* The command string each method hands to service().
ServiceCommand(o) ==
    CASE o.name = "service" -> o.cmd
      [] o.name = "device" -> IF o.cmd = <<>> THEN Lit(TransportAny)
                              ELSE Cat(Lit(TransportPrefix), o.cmd)
      [] o.name = "usbdevice" -> Lit(TransportUsb)
      [] o.name = "emulator" -> Lit(TransportLocal)
      [] o.name \in {"exec", "exec_stream"} -> Cat(Lit(ExecPrefix), o.cmd)
      [] o.name \in {"shell", "shell_stream"} -> Cat(Lit(ShellPrefix), o.cmd)
      [] o.name = "push" -> Lit(SyncCmd)
      [] o.name = "connect" -> Cat(Lit(ConnectPrefix), o.cmd)
      [] o.name = "disconnect" -> Cat(Lit(DisconnectPrefix), o.cmd)
      [] o.name = "devices" -> Lit(HostDevices)

\* The status test turned into "anything but FAIL".
StatusNotFail(status) == status # FAIL

\* _check_okay, line 14: the status that lets service() return.
StatusOkay(status) == status = OKAY

\* exec / shell returning as soon as service() did, the stream left unread.
AfterServiceNoDrain(o) ==
    CASE o.name = "push" -> "push_send"
      [] o.name \in {"connect", "disconnect", "devices"} -> "response"
      [] OTHER -> "done"

\* Where a method goes on once service() has returned self.
AfterService(o) ==
    CASE o.name \in {"exec", "shell"} -> "drain"
      [] o.name = "push" -> "push_send"
      [] o.name \in {"connect", "disconnect", "devices"} -> "response"
      [] OTHER -> "done"

\* What a method returns when service() was its last step.
ServiceResult(o) ==
    CASE o.name \in {"exec_stream", "shell_stream"} -> Returns("sock", <<>>)
      [] o.name \in {"service", "device", "usbdevice", "emulator"} -> Returns("self", <<>>)
      [] OTHER -> NoResult

\* A call begins: the method's first statement is reached.
Begin(o, to, res) ==
    /\ pc = "idle"
    /\ calls < MaxCalls
    /\ calls' = calls + 1
    /\ UNCHANGED handedOut
    /\ op' = o
    /\ pc' = to
    /\ result' = res
    /\ log' = <<>>
    /\ chunk' = 0

CallService ==
    \E c \in CmdArgs :
        /\ Begin([NoOp EXCEPT !.name = "service", !.cmd = c], "service", NoResult)
        /\ UNCHANGED <<sockOpen, inbuf>>

CallDevice ==
    \E d \in DevIds :
        /\ Begin([NoOp EXCEPT !.name = "device", !.cmd = d], "service", NoResult)
        /\ UNCHANGED <<sockOpen, inbuf>>

CallUsbdevice ==
    /\ Begin([NoOp EXCEPT !.name = "usbdevice"], "service", NoResult)
    /\ UNCHANGED <<sockOpen, inbuf>>

CallEmulator ==
    /\ Begin([NoOp EXCEPT !.name = "emulator"], "service", NoResult)
    /\ UNCHANGED <<sockOpen, inbuf>>

CallExecStream ==
    \E c \in CmdArgs :
        /\ Begin([NoOp EXCEPT !.name = "exec_stream", !.cmd = c], "service", NoResult)
        /\ UNCHANGED <<sockOpen, inbuf>>

CallShellStream ==
    \E c \in CmdArgs :
        /\ Begin([NoOp EXCEPT !.name = "shell_stream", !.cmd = c], "service", NoResult)
        /\ UNCHANGED <<sockOpen, inbuf>>

\* exec(cmd), lines 91-93
CallExec ==
    \E c \in CmdArgs :
        /\ IF NoCommand(c)
           THEN Begin([NoOp EXCEPT !.name = "exec", !.cmd = c], "done",
                      Raises("ValueError", <<>>))
           ELSE Begin([NoOp EXCEPT !.name = "exec", !.cmd = c], "service", NoResult)
        /\ UNCHANGED <<sockOpen, inbuf>>

\* shell(cmd), lines 105-107
CallShell ==
    \E c \in CmdArgs :
        /\ IF NoCommand(c)
           THEN Begin([NoOp EXCEPT !.name = "shell", !.cmd = c], "done",
                      Raises("ValueError", <<>>))
           ELSE Begin([NoOp EXCEPT !.name = "shell", !.cmd = c], "service", NoResult)
        /\ UNCHANGED <<sockOpen, inbuf>>

\* push(target_path, buffer, mode, mtime), line 115
CallPush ==
    \E p \in Paths, n \in BufferSizes, m \in Modes, t \in Mtimes :
        /\ Begin([name |-> "push", cmd |-> p, size |-> n, mode |-> m,
                  mtime |-> t], "service", NoResult)
        /\ UNCHANGED <<sockOpen, inbuf>>

\* connect(device), line 59
CallConnect ==
    \E d \in DevSpecs :
        /\ Begin([NoOp EXCEPT !.name = "connect", !.cmd = d], "service", NoResult)
        /\ UNCHANGED <<sockOpen, inbuf>>

\* disconnect(device), line 65
CallDisconnect ==
    \E d \in DevSpecs :
        /\ Begin([NoOp EXCEPT !.name = "disconnect", !.cmd = d], "service", NoResult)
        /\ UNCHANGED <<sockOpen, inbuf>>

\* devices(), line 54
CallDevices ==
    /\ Begin([NoOp EXCEPT !.name = "devices"], "service", NoResult)
    /\ UNCHANGED <<sockOpen, inbuf>>

\* close(), line 38
CallClose ==
    /\ pc = "idle"
    /\ calls < MaxCalls
    /\ calls' = calls + 1
    /\ UNCHANGED handedOut
    /\ op' = [NoOp EXCEPT !.name = "close"]
    /\ sockOpen' = FALSE
    /\ log' = <<Close>>
    /\ result' = Returns("None", <<>>)
    /\ pc' = "done"
    /\ chunk' = 0
    /\ UNCHANGED inbuf

\* read_response(), line 50
CallReadResponse ==
    /\ pc = "idle"
    /\ calls < MaxCalls
    /\ calls' = calls + 1
    /\ UNCHANGED handedOut
    /\ op' = [NoOp EXCEPT !.name = "read_response"]
    /\ LET r == ReadHexlen(inbuf)
       IN  /\ result' = r.res
           /\ log' = r.reads
           /\ inbuf' = r.rest
    /\ pc' = "done"
    /\ chunk' = 0
    /\ UNCHANGED sockOpen

\* service(), lines 42-44: frame the command and hand it to socket.send.
ServiceSend ==
    /\ pc = "service"
    /\ LET data == ServiceFrame(ServiceCommand(op))
       IN  \/ /\ pc' = "done"
              /\ result' = Raises("OSError", <<>>)
              /\ UNCHANGED <<inbuf, log>>
           \/ /\ sockOpen
              /\ \E k \in SendAccepts(BLen(data)) :
                    /\ log' = Append(log, Write("request", data, k))
                    /\ \E r \in PeerAnswers(ServiceCommand(op), k = BLen(data)) :
                          inbuf' = inbuf \o r
              /\ pc' = "status"
              /\ UNCHANGED result
    /\ UNCHANGED <<op, sockOpen, chunk, calls, handedOut>>

\* _check_okay taking every pending byte along with an OKAY status.
CheckOkayDrainsPending(buf) ==
    IF ~RecvDelivers(buf, StatusLen)
    THEN [okay |-> FALSE, res |-> Raises("RecvError", <<>>),
          reads |-> <<Read(buf, StatusLen)>>, rest |-> <<>>]
    ELSE LET status == SubSeq(buf, 1, StatusLen)
             after == SubSeq(buf, StatusLen + 1, Len(buf))
         IN  IF StatusOkay(status)
             THEN [okay |-> TRUE, res |-> NoResult,
                   reads |-> <<Read(status, StatusLen)>>, rest |-> <<>>]
             ELSE LET r == ReadHexlen(after)
                  IN  [okay |-> FALSE,
                       res |-> IF r.res.kind = "return"
                               THEN Raises("RuntimeError", r.res.val)
                               ELSE r.res,
                       reads |-> <<Read(status, StatusLen)>> \o r.reads,
                       rest |-> r.rest]

\* _check_okay raising without reading the server's message.
CheckOkayNoMessage(buf) ==
    IF ~RecvDelivers(buf, StatusLen)
    THEN [okay |-> FALSE, res |-> Raises("RecvError", <<>>),
          reads |-> <<Read(buf, StatusLen)>>, rest |-> <<>>]
    ELSE LET status == SubSeq(buf, 1, StatusLen)
             after == SubSeq(buf, StatusLen + 1, Len(buf))
         IN  [okay |-> StatusOkay(status),
              res |-> IF StatusOkay(status) THEN NoResult
                      ELSE Raises("RuntimeError", <<>>),
              reads |-> <<Read(status, StatusLen)>>, rest |-> after]

\* _check_okay(sock), lines 12-15, on the pending bytes buf: whether the
\* status was OKAY, else what it raises; its recvexactly calls; what is left.
CheckOkayOn(buf) ==
    IF ~RecvDelivers(buf, StatusLen)
    THEN [okay |-> FALSE, res |-> Raises("RecvError", <<>>),
          reads |-> <<Read(buf, StatusLen)>>, rest |-> <<>>]
    ELSE LET status == SubSeq(buf, 1, StatusLen)
             after == SubSeq(buf, StatusLen + 1, Len(buf))
         IN  IF StatusOkay(status)
             THEN [okay |-> TRUE, res |-> NoResult,
                   reads |-> <<Read(status, StatusLen)>>, rest |-> after]
             ELSE LET r == ReadHexlen(after)
                  IN  [okay |-> FALSE,
                       res |-> IF r.res.kind = "return"
                               THEN Raises("RuntimeError", r.res.val)
                               ELSE r.res,
                       reads |-> <<Read(status, StatusLen)>> \o r.reads,
                       rest |-> r.rest]

\* service(), lines 45-46: _check_okay, then return self to the method.
CheckOkay ==
    /\ pc = "status"
    /\ LET c == CheckOkayOn(inbuf)
       IN  /\ result' = IF c.okay THEN ServiceResult(op) ELSE c.res
           /\ log' = log \o c.reads
           /\ inbuf' = c.rest
           /\ pc' = IF c.okay THEN AfterService(op) ELSE "done"
           /\ handedOut' = (handedOut \/ (c.okay /\ ServiceResult(op).ret = "sock"))
    /\ UNCHANGED <<op, sockOpen, chunk, calls>>

\* connect / disconnect, lines 61-62 and 67-68: what the decoded text decides.
ConnectOutcome(resp) ==
    IF ReportsFailure(resp) THEN Raises("RuntimeError", resp)
    ELSE Returns("None", <<>>)

\* connect / disconnect, lines 59-62 and 65-68, after service() returned:
\* read_response(), decode(errors='ignore'), look for the failure words.
ConnectResponse ==
    /\ pc = "response"
    /\ op.name \in {"connect", "disconnect"}
    /\ LET r == ReadHexlen(inbuf)
       IN  /\ result' = IF r.res.kind = "return"
                        THEN ConnectOutcome(DecodeIgnore(r.res.val))
                        ELSE r.res
           /\ log' = log \o r.reads
           /\ inbuf' = r.rest
    /\ pc' = "done"
    /\ UNCHANGED <<op, sockOpen, chunk, calls, handedOut>>

\* devices, lines 54-56, after service() returned: read_response(),
\* decode() (strict), one tuple per line.
DevicesResponse ==
    /\ pc = "response"
    /\ op.name = "devices"
    /\ LET r == ReadHexlen(inbuf)
       IN  /\ result' = IF r.res.kind # "return" THEN r.res
                        ELSE IF ~Decodable(r.res.val)
                             THEN Raises("UnicodeDecodeError", <<>>)
                             ELSE ReturnsList(DevicesList(DecodeIgnore(r.res.val)))
           /\ log' = log \o r.reads
           /\ inbuf' = r.rest
    /\ pc' = "done"
    /\ UNCHANGED <<op, sockOpen, chunk, calls, handedOut>>

\* exec / shell, lines 94-96: recvall, close, return the data.
Drain ==
    /\ pc = "drain"
    /\ result' = Returns("bytes", inbuf)
    /\ log' = log \o <<Read(inbuf, -1), Close>>
    /\ inbuf' = <<>>
    /\ sockOpen' = FALSE
    /\ pc' = "done"
    /\ UNCHANGED <<op, chunk, calls, handedOut>>

\* ------------------------------------------------------------------ push
\* push, lines 116-117: the SEND header, handed to socket.send.
PushSend ==
    /\ pc = "push_send"
    /\ LET packet == SendPacket(op.cmd, op.mode)
       IN  \/ /\ pc' = "done"
              /\ result' = Raises("OSError", <<>>)
              /\ UNCHANGED <<log, chunk>>
           \/ /\ \E k \in SendAccepts(BLen(packet)) :
                    log' = Append(log, Write("SEND", packet, k))
              /\ chunk' = 1
              /\ pc' = IF Len(PushChunks(op.size)) >= 1 THEN "push_data" ELSE "push_done"
              /\ UNCHANGED result
    /\ UNCHANGED <<op, sockOpen, inbuf, calls, handedOut>>

\* push, lines 121-124: one turn of the loop, a DATA packet through sendall.
PushData ==
    /\ pc = "push_data"
    /\ LET arrays == PushChunks(op.size)
       IN  \/ /\ pc' = "done"
              /\ result' = Raises("OSError", <<>>)
              /\ UNCHANGED <<log, chunk>>
           \/ /\ log' = Append(log, LET packet == DataPacket(arrays[chunk])
                                    IN  Write("DATA", packet, BLen(packet)))
              /\ chunk' = chunk + 1
              /\ pc' = IF chunk < Len(arrays) THEN "push_data" ELSE "push_done"
              /\ UNCHANGED result
    /\ UNCHANGED <<op, sockOpen, inbuf, calls, handedOut>>

\* push, lines 125-127: default the mtime, pack it, DONE through sendall.
PushDone ==
    /\ pc = "push_done"
    /\ \E mtime \in (IF op.mtime.none THEN Clock ELSE {op.mtime}) :
          IF ~PackFits(mtime)
          THEN /\ pc' = "done"
               /\ result' = Raises("struct.error", <<>>)
               /\ UNCHANGED <<log, inbuf>>
          ELSE \/ /\ pc' = "done"
                  /\ result' = Raises("OSError", <<>>)
                  /\ UNCHANGED <<log, inbuf>>
               \/ /\ log' = Append(log, LET packet == DonePacket(mtime)
                                        IN  Write("DONE", packet, BLen(packet)))
                  /\ \E r \in FinalReplies : inbuf' = inbuf \o r
                  /\ pc' = "push_final"
                  /\ UNCHANGED result
    /\ UNCHANGED <<op, sockOpen, chunk, calls, handedOut>>

\* The outcome with the whole 8-byte response compared to OKAY.
PushOutcomeUnsliced(response) ==
    IF response # OKAY
    THEN Raises("RuntimeError", PushFailed)
    ELSE Returns("None", <<>>)

\* push, lines 130-131: the outcome the 8-byte status decides.
PushOutcome(response) ==
    IF SubSeq(response, 1, 4) # OKAY
    THEN Raises("RuntimeError", PushFailed)
    ELSE Returns("None", <<>>)

\* push, lines 128-131: read the final status, close, judge the tag.
PushFinal ==
    /\ pc = "push_final"
    /\ IF ~RecvDelivers(inbuf, FinalLen)
       THEN /\ result' = Raises("RecvError", <<>>)
            /\ log' = Append(log, Read(inbuf, FinalLen))
            /\ inbuf' = <<>>
            /\ UNCHANGED sockOpen
       ELSE LET response == SubSeq(inbuf, 1, FinalLen)
            IN  /\ result' = PushOutcome(response)
                /\ log' = log \o <<Read(response, FinalLen), Close>>
                /\ inbuf' = SubSeq(inbuf, FinalLen + 1, Len(inbuf))
                /\ sockOpen' = FALSE
    /\ pc' = "done"
    /\ UNCHANGED <<op, chunk, calls, handedOut>>

\* The caller has the call's outcome; the Session is free for the next call.
Return ==
    /\ pc = "done"
    /\ pc' = "idle"
    /\ op' = NoOp
    /\ log' = <<>>
    /\ result' = NoResult
    /\ chunk' = 0
    /\ UNCHANGED <<sockOpen, inbuf, calls, handedOut>>

Next ==
    \/ CallService
    \/ CallDevice
    \/ CallUsbdevice
    \/ CallEmulator
    \/ CallExecStream
    \/ CallShellStream
    \/ CallExec
    \/ CallShell
    \/ CallPush
    \/ CallDevices
    \/ CallConnect
    \/ CallDisconnect
    \/ CallClose
    \/ CallReadResponse
    \/ ServiceSend
    \/ CheckOkay
    \/ ConnectResponse
    \/ DevicesResponse
    \/ Drain
    \/ PushSend
    \/ PushData
    \/ PushDone
    \/ PushFinal
    \/ Return

Spec == Init /\ [][Next]_vars

\* ================================================================ claims
\* The write events of the current call that carry the given packet kind.
Writes(tag) == SelectSeq(log, LAMBDA e : e.ev = "write" /\ e.tag = tag)

\* A 4-byte little-endian unsigned field read back, as 16-bit halves.
UnpackLE32(s) == [hi |-> s[3] + 256 * s[4], lo |-> s[1] + 256 * s[2]]

\* The bytes of a DATA packet after its 8-byte header.
Payload(e) == Drop(e.data, 8)

\* The first k bytes of a blob, when they are literal bytes.
Leading(x, k) == LET t == Take(x, k)
              IN  IF Len(t) = 1 /\ t[1].src = "lit" THEN t[1].b ELSE <<>>

RECURSIVE Payloads(_)
Payloads(ws) == IF ws = <<>> THEN <<>>
                ELSE Cat(Payload(ws[1]), Payloads(Tail(ws)))

\* push has left its DATA loop.
PushLoopOver == op.name = "push" /\ pc \in {"push_done", "push_final"}

\* C1: once push has left its loop, the payloads of the DATA packets it
\* wrote, joined in the order written, are the buffer; the i-th packet
\* carries the buffer's bytes from (i-1)*65536 on, every packet but the last
\* carries exactly 65536 bytes and the last carries what remains.
C1_ChunksCoverBuffer ==
    PushLoopOver =>
        LET d == Writes("DATA")
        IN  /\ Payloads(d) = Window("buffer", 0, op.size)
            /\ \A i \in 1..Len(d) :
                  /\ d[i].n = BLen(d[i].data)
                  /\ Payload(d[i]) =
                        Window("buffer", (i - 1) * 65536,
                               IF i < Len(d) THEN i * 65536 ELSE op.size)
                  /\ i < Len(d) => BLen(Payload(d[i])) = 65536

\* C1 witness: a 150000-byte buffer has gone out as 65536, 65536, 18928.
C1_Witness ==
    /\ PushLoopOver
    /\ op.size = 150000
    /\ LET d == Writes("DATA")
       IN  /\ Len(d) = 3
           /\ BLen(Payload(d[1])) = 65536
           /\ BLen(Payload(d[2])) = 65536
           /\ BLen(Payload(d[3])) = 18928

\* C2: a push of an empty buffer writes no DATA packet: whatever it has
\* written after the SEND header is the DONE packet.
C2_EmptyBufferNoData ==
    (op.name = "push" /\ op.size = 0) => Writes("DATA") = <<>>

\* C3: every DATA packet written starts with the tag DATA and a
\* little-endian length field equal to the number of payload bytes that
\* follow, and that number is at most 65536.
C3_DataLengthField ==
    \A i \in 1..Len(log) :
        (log[i].ev = "write" /\ log[i].tag = "DATA") =>
            LET h == Leading(log[i].data, 8)
                n == BLen(log[i].data) - 8
            IN  /\ Len(h) = 8
                /\ SubSeq(h, 1, 4) = DATA
                /\ UnpackLE32(SubSeq(h, 5, 8)) = Wide(n)
                /\ n <= 65536

\* C3 witness: a full packet and a short last packet have both been written.
C3_Witness ==
    /\ op.name = "push"
    /\ \E i, j \in 1..Len(log) :
          /\ log[i].ev = "write" /\ log[i].tag = "DATA"
          /\ BLen(log[i].data) = 8 + 65536
          /\ log[j].ev = "write" /\ log[j].tag = "DATA"
          /\ BLen(log[j].data) = 8 + 18928

\* The frame of 'sync:' as it stands on the wire: '0005sync:'.
SyncFrame == Lit(<<48, 48, 48, 53>> \o SyncCmd)

\* Where a packet kind stands in the push sequence.
Rank(tag) == CASE tag = "request" -> 0
               [] tag = "SEND" -> 1
               [] tag = "DATA" -> 2
               [] tag = "DONE" -> 3

\* The 'sync:' request of the current call was written and answered OKAY.
SyncEntered ==
    /\ op.name = "push"
    /\ Len(log) >= 2
    /\ log[1].ev = "write" /\ log[1].tag = "request" /\ log[1].data = SyncFrame
    /\ log[2] = Read(OKAY, 4)

\* push has run to its last statement: it returned, or raised 'push failed'.
PushCompleted ==
    /\ op.name = "push"
    /\ pc = "done"
    /\ result \in {Returns("None", <<>>), Raises("RuntimeError", PushFailed)}

\* C4: in a push, SEND/DATA/DONE are written only after the 'sync:' request
\* was written and answered OKAY; the packets go out in the order request,
\* SEND, DATA..., DONE with one request, one SEND and one DONE at most, so
\* nothing is written after DONE; and a push that completes has done exactly:
\* write request, read OKAY, write SEND, write the DATA packets, write DONE,
\* read the 8-byte final status (then close).
C4_PushSequence ==
    op.name = "push" =>
        /\ \A i \in 1..Len(log) :
              (log[i].ev = "write" /\ log[i].tag # "request") =>
                  SyncEntered /\ i > 2
        /\ \A i, j \in 1..Len(log) :
              (i < j /\ log[i].ev = "write" /\ log[j].ev = "write") =>
                  /\ Rank(log[i].tag) <= Rank(log[j].tag)
                  /\ log[j].tag # "DATA" => Rank(log[i].tag) < Rank(log[j].tag)
        /\ PushCompleted =>
              LET n == Len(log)
              IN  /\ n >= 6
                  /\ SyncEntered
                  /\ log[3].ev = "write" /\ log[3].tag = "SEND"
                  /\ \A i \in 4..(n - 3) :
                        log[i].ev = "write" /\ log[i].tag = "DATA"
                  /\ log[n - 2].ev = "write" /\ log[n - 2].tag = "DONE"
                  /\ log[n - 1].ev = "read" /\ log[n - 1].n = 8
                  /\ BLen(log[n - 1].data) = 8
                  /\ log[n] = Close

\* C4 witness: a push of three chunks has returned normally.
C4_Witness ==
    /\ PushCompleted
    /\ result.kind = "return"
    /\ Len(Writes("DATA")) = 3
    /\ Len(log) = 9

\* The current push has read its whole 8-byte final status.
FinalStatusRead ==
    /\ op.name = "push"
    /\ pc = "done"
    /\ Len(Writes("DONE")) = 1
    /\ log[Len(log) - 1].ev = "read"
    /\ log[Len(log) - 1].n = 8
    /\ BLen(log[Len(log) - 1].data) = 8

\* The 8 bytes of the final status.
FinalStatus == log[Len(log) - 1].data[1].b

\* C5: once push has read the 8-byte final status, it raises RuntimeError
\* 'push failed' when the first 4 bytes are not OKAY and returns None when
\* they are, whatever the last 4 bytes; either way the socket is closed.
C5_PushFinalStatus ==
    FinalStatusRead =>
        /\ SubSeq(FinalStatus, 1, 4) = OKAY => result = Returns("None", <<>>)
        /\ SubSeq(FinalStatus, 1, 4) # OKAY =>
              result = Raises("RuntimeError", PushFailed)
        /\ ~sockOpen

\* C5 witness: a final status OKAY followed by the bytes 'FAIL' was read and
\* push returned.
C5_Witness ==
    /\ FinalStatusRead
    /\ FinalStatus = OKAY \o FAIL
    /\ result.kind = "return"
    /\ ~sockOpen

\* C6: once push has entered sync mode, the socket is closed whenever push
\* has ended, however it ended.
C6_PushAlwaysCloses ==
    (SyncEntered /\ pc = "done") => ~sockOpen

\* C7: when service is about to read the reply and the pending bytes are
\* FAIL, a 4-hex-digit length L and at least L more bytes, it raises
\* RuntimeError carrying exactly those L bytes and has read exactly the
\* status, the length field and (when L > 0) the L bytes: with L = 0 the
\* message is empty and nothing beyond the length field is read.  And
\* service hands the Session back (the method returns or goes on) only when
\* the 4 status bytes are OKAY.
C7_FailReply ==
    [][pc = "status" =>
        /\ \A L \in 0..8 :
              (/\ Len(inbuf) >= 8 + L
               /\ SubSeq(inbuf, 1, 4) = FAIL
               /\ SubSeq(inbuf, 5, 8) = FormatHex(L)) =>
                  /\ pc' = "done"
                  /\ result' = Raises("RuntimeError", SubSeq(inbuf, 9, 8 + L))
                  /\ inbuf' = SubSeq(inbuf, 9 + L, Len(inbuf))
                  /\ log' = log \o <<Read(FAIL, 4), Read(FormatHex(L), 4)>>
                            \o (IF L = 0 THEN <<>>
                                ELSE <<Read(SubSeq(inbuf, 9, 8 + L), L)>>)
        /\ (pc' # "done" \/ result'.kind = "return") =>
              (Len(inbuf) >= 4 /\ SubSeq(inbuf, 1, 4) = OKAY)
    ]_vars

\* C7 witness: FAIL with length 0000 was answered by an empty message, and
\* the byte after the length field is still pending.
C7_Witness ==
    /\ pc = "done"
    /\ result = Raises("RuntimeError", <<>>)
    /\ log[Len(log)] = Read(<<48, 48, 48, 48>>, 4)
    /\ log[Len(log) - 1] = Read(FAIL, 4)
    /\ inbuf = <<120>>

\* C8: for every command whose encoded length n is at most 0xFFFF, the
\* frame service hands to the socket is n + 4 bytes: 4 hex digits that
\* int(.., 16) reads back as n, then exactly the n command bytes.
C8_LengthPrefixRoundTrip ==
    pc = "status" =>
        LET cmdbytes == Encode(ServiceCommand(op))
            n == BLen(cmdbytes)
            frame == log[Len(log)].data
            prefix == Leading(frame, 4)
        IN  n <= 65535 =>
                /\ BLen(frame) = 4 + n
                /\ Len(prefix) = 4
                /\ IntAccepts(prefix)
                /\ IntBase16(prefix) = n
                /\ Drop(frame, 4) = cmdbytes

\* C8 witness: a command of 0xFFFF bytes went out under the prefix 'FFFF'.
C8_Witness ==
    /\ pc = "status"
    /\ BLen(Encode(ServiceCommand(op))) = 65535
    /\ Leading(log[Len(log)].data, 4) = <<70, 70, 70, 70>>

\* C9: every request frame service writes carries a command of at most
\* 0xFFFF bytes behind a prefix of exactly 4 hex digits.
C9_FrameFitsPrefix ==
    pc = "status" =>
        LET n == BLen(Encode(ServiceCommand(op)))
            frame == log[Len(log)].data
        IN  /\ n <= 65535
            /\ BLen(frame) = 4 + n

\* C10: exec('') and shell('') end in the step that calls them, raising
\* ValueError, with nothing written or read and the socket and the pending
\* bytes as they were.
C10_EmptyCommandRejected ==
    [][(/\ pc = "idle"
        /\ pc' # "idle"
        /\ op'.name \in {"exec", "shell"}
        /\ BLen(op'.cmd) = 0) =>
            /\ pc' = "done"
            /\ result' = Raises("ValueError", <<>>)
            /\ log' = <<>>
            /\ sockOpen' = sockOpen
            /\ inbuf' = inbuf
    ]_vars

\* C10 witness: shell('') has raised ValueError on a Session that is open.
C10_Witness ==
    /\ pc = "done"
    /\ op.name = "shell"
    /\ op.cmd = <<>>
    /\ result = Raises("ValueError", <<>>)
    /\ log = <<>>
    /\ sockOpen

\* The bytes a read event delivered.
Got(e) == IF e.data = <<>> THEN <<>> ELSE e.data[1].b

\* From position i on, the log holds exactly the reads of one whole
\* length-prefixed payload: a 4-hex-digit length L and, when L > 0, L bytes.
PayloadReadAt(i) ==
    /\ Len(log) >= i
    /\ log[i].ev = "read" /\ log[i].n = 4 /\ Len(Got(log[i])) = 4
    /\ IntAccepts(Got(log[i]))
    /\ LET L == IntBase16(Got(log[i]))
       IN  IF L = 0 THEN Len(log) = i
           ELSE /\ Len(log) = i + 1
                /\ log[i + 1].ev = "read" /\ log[i + 1].n = L
                /\ Len(Got(log[i + 1])) = L

\* The payload those reads delivered.
PayloadAt(i) == IF Len(log) = i THEN <<>> ELSE Got(log[i + 1])

\* connect or disconnect has ended after an OKAY status and a whole payload.
ConnectAnswered ==
    /\ op.name \in {"connect", "disconnect"}
    /\ pc = "done"
    /\ Len(log) >= 3
    /\ log[2] = Read(OKAY, 4)
    /\ PayloadReadAt(3)

\* C11: connect / disconnect answered OKAY plus a length-prefixed payload
\* raises RuntimeError (carrying the text) exactly when the payload, decoded
\* with undecodable bytes dropped, contains 'unable' or 'cannot', and
\* returns None otherwise; the status and the whole payload were read, and
\* nothing more, when the outcome is there.
C11_ConnectFailureWords ==
    ConnectAnswered =>
        LET text == DecodeIgnore(PayloadAt(3))
        IN  /\ (Contains(text, Unable) \/ Contains(text, Cannot)) =>
                  result = Raises("RuntimeError", text)
            /\ ~(Contains(text, Unable) \/ Contains(text, Cannot)) =>
                  result = Returns("None", <<>>)
            /\ log[1].ev = "write" /\ log[1].tag = "request"

\* C11 witness: connect read the payload 'una', 0xFF, 'ble' and raised
\* RuntimeError('unable').
C11_Witness ==
    /\ ConnectAnswered
    /\ op.name = "connect"
    /\ PayloadAt(3) = <<117, 110, 97, 255, 98, 108, 101>>
    /\ result = Raises("RuntimeError", Unable)

\* devices has ended after an OKAY status and a whole payload.
DevicesAnswered ==
    /\ op.name = "devices"
    /\ pc = "done"
    /\ Len(log) >= 3
    /\ log[1].ev = "write" /\ log[1].tag = "request"
    /\ log[1].data = Lit(<<48, 48, 48, 67>> \o HostDevices)
    /\ log[2] = Read(OKAY, 4)
    /\ PayloadReadAt(3)

\* The text with every line end ('\r\n' as one) written as '\n'.
RECURSIVE NewlinesOnly(_)
NewlinesOnly(s) ==
    IF s = <<>> THEN <<>>
    ELSE IF s[1] = 13 /\ Len(s) >= 2 /\ s[2] = 10
         THEN <<10>> \o NewlinesOnly(SubSeq(s, 3, Len(s)))
    ELSE IF s[1] \in {10, 11, 12, 13, 28, 29, 30, 133, 8232, 8233}
         THEN <<10>> \o NewlinesOnly(Tail(s))
         ELSE <<s[1]>> \o NewlinesOnly(Tail(s))

\* The fields of a tuple joined by tabs.
RECURSIVE JoinTabs(_)
JoinTabs(t) == IF Len(t) = 1 THEN t[1] ELSE t[1] \o <<9>> \o JoinTabs(Tail(t))

\* The entries written back as text: each one's fields joined by tabs and
\* ended by '\n'.
RECURSIVE Unlines(_)
Unlines(l) == IF l = <<>> THEN <<>> ELSE JoinTabs(l[1]) \o <<10>> \o Unlines(Tail(l))

\* Cutting at '\n' only: the pieces between the newlines, the piece after
\* the last newline counted only when it is not empty.
RECURSIVE NewlineLines(_, _)
NewlineLines(s, cur) ==
    IF s = <<>> THEN (IF cur = <<>> THEN <<>> ELSE <<cur>>)
    ELSE IF s[1] = 10 THEN <<cur>> \o NewlineLines(Tail(s), <<>>)
         ELSE NewlineLines(Tail(s), Append(cur, s[1]))

\* C12 as claimed: for every payload devices() returns one entry per
\* newline-delimited line, in order, each the pair (serial, state) the line
\* splits into at its tab; the empty payload gives the empty list.
C12_PairPerNewlineLine ==
    DevicesAnswered =>
        LET lines == NewlineLines(DecodeIgnore(PayloadAt(3)), <<>>)
        IN  /\ result.kind = "return"
            /\ Len(result.list) = Len(lines)
            /\ \A i \in 1..Len(lines) :
                  /\ i <= Len(result.list)
                  /\ Len(result.list[i]) = 2
                  /\ JoinTabs(result.list[i]) = lines[i]

\* C12, amended: devices() sends 'host:devices'; a payload that is valid
\* UTF-8 gives a list whose entries, each written as its fields joined by
\* tabs and ended by '\n', spell the text with every line end read as '\n'
\* (plus a final '\n' when the text does not end in a line end); no field
\* holds a tab or a line end, so an entry is a pair exactly when its line
\* holds one tab; the empty payload gives the empty list; a payload that is
\* not valid UTF-8 raises UnicodeDecodeError.
C12_TuplePerLine ==
    DevicesAnswered =>
        IF ~Decodable(PayloadAt(3))
        THEN result = Raises("UnicodeDecodeError", <<>>)
        ELSE LET text == NewlinesOnly(DecodeIgnore(PayloadAt(3)))
             IN  /\ result.kind = "return" /\ result.ret = "list"
                 /\ Unlines(result.list) =
                       IF text = <<>> \/ text[Len(text)] = 10 THEN text
                       ELSE text \o <<10>>
                 /\ \A i \in 1..Len(result.list) :
                       /\ Len(result.list[i]) >= 1
                       /\ \A j \in 1..Len(result.list[i]) :
                             \A k \in 1..Len(result.list[i][j]) :
                                 result.list[i][j][k] \notin {9, 10}
                 /\ text = <<>> => result.list = <<>>

\* C12 witness: the payload 'a\tb\nc\td\n' came back as [(a, b), (c, d)].
C12_Witness ==
    /\ DevicesAnswered
    /\ PayloadAt(3) = <<97, 9, 98, 10, 99, 9, 100, 10>>
    /\ result = ReturnsList(<< <<<<97>>, <<98>>>>, <<<<99>>, <<100>>>> >>)

\* The prefix exec / shell put before the command.
StreamPrefix(name) == IF name \in {"exec", "exec_stream"} THEN ExecPrefix ELSE ShellPrefix

\* Blocking exec / shell has read an OKAY status and has ended.
BlockingAnswered ==
    /\ op.name \in {"exec", "shell"}
    /\ pc = "done"
    /\ Len(log) >= 2
    /\ log[2] = Read(OKAY, 4)

\* C13: blocking exec(cmd) / shell(cmd) that read an OKAY status has made
\* exactly four socket calls: one write, whole, of the frame for
\* 'exec:<cmd>' / 'shell:<cmd>', the status read, one read to end-of-stream
\* and the close; it returns the bytes that read delivered, which are all
\* the bytes pending after the status, and leaves the socket closed.
C13_BlockingExec ==
    /\ [](BlockingAnswered =>
            LET cmdbytes == Cat(Lit(StreamPrefix(op.name)), Encode(op.cmd))
                frame == log[1].data
                digits == BLen(frame) - BLen(cmdbytes)
            IN  /\ BLen(op.cmd) > 0
                /\ log[1].ev = "write" /\ log[1].tag = "request"
                /\ log[1].n = BLen(frame)
                /\ Leading(frame, digits) = FormatHex(BLen(cmdbytes))
                /\ Drop(frame, digits) = cmdbytes
                /\ Len(log) = 4
                /\ log[3].ev = "read" /\ log[3].n = -1
                /\ log[4] = Close
                /\ result = Returns("bytes", Got(log[3]))
                /\ ~sockOpen)
    /\ [][(pc = "drain" /\ pc' # "drain") =>
            /\ op.name \in {"exec", "shell"}
            /\ log[Len(log)] = Read(OKAY, 4)
            /\ pc' = "done"
            /\ result' = Returns("bytes", inbuf)
            /\ inbuf' = <<>>
            /\ log' = log \o <<Read(inbuf, -1), Close>>
       ]_vars

\* C13 witness: shell('ls') returned the two bytes 'hi' that followed OKAY
\* and closed the socket.
C13_Witness ==
    /\ BlockingAnswered
    /\ op.name = "shell"
    /\ op.cmd = Lit(TextLs)
    /\ result = Returns("bytes", <<48, 48, 48, 50, 104, 105>>)
    /\ ~sockOpen

\* C14: read_response() on an open socket whose pending bytes start with
\* four hex digits of value L followed by at least L bytes reads the four
\* digits, then, only when L > 0, exactly the next L bytes in one further
\* read, returns those L bytes and leaves every later byte pending; with
\* L = 0 the length field is its only read and it returns b''.
C14_ReadResponseExact ==
    [][(/\ pc = "idle"
        /\ pc' # "idle"
        /\ op'.name = "read_response"
        /\ sockOpen
        /\ Len(inbuf) >= 4
        /\ \A i \in 1..4 : IsHexByte(inbuf[i])
        /\ Len(inbuf) >= 4 + IntBase16(SubSeq(inbuf, 1, 4))) =>
            LET L == IntBase16(SubSeq(inbuf, 1, 4))
            IN  /\ pc' = "done"
                /\ result' = Returns("bytes", SubSeq(inbuf, 5, 4 + L))
                /\ inbuf' = SubSeq(inbuf, 5 + L, Len(inbuf))
                /\ log' = IF L = 0 THEN <<Read(SubSeq(inbuf, 1, 4), 4)>>
                          ELSE <<Read(SubSeq(inbuf, 1, 4), 4),
                                 Read(SubSeq(inbuf, 5, 4 + L), L)>>
                /\ sockOpen'
    ]_vars

\* C14 witness: read_response() met '0000x', returned b'' after reading the
\* length field alone and left 'x' pending.
C14_Witness ==
    /\ pc = "done"
    /\ op.name = "read_response"
    /\ result = Returns("bytes", <<>>)
    /\ log = <<Read(<<48, 48, 48, 48>>, 4)>>
    /\ inbuf = <<120>>

\* C15: once exec_stream or shell_stream has handed the socket to its
\* caller, no later call on the Session writes a request frame.
C15_NoFrameAfterStreaming ==
    [][handedOut => Writes("request")' \in {<<>>, Writes("request")}]_vars

\* C16: whenever the client has gone on to read the reply or to write the
\* next packet, the request frame (service) or SEND header (push) before it
\* was written whole by its one send call.
C16_FrameWrittenWhole ==
    \A i \in 1..Len(log) :
        (/\ i < Len(log)
         /\ log[i].ev = "write"
         /\ log[i].tag \in {"request", "SEND"}) =>
            log[i].n = BLen(log[i].data)

\* C17: a call whose request was answered by a 4-byte status other than
\* OKAY ends raising RuntimeError (the code's ProtocolError), whatever bytes
\* follow the status.
C17_NonOkayIsProtocolError ==
    (/\ pc = "done"
     /\ Len(log) >= 2
     /\ log[1].ev = "write" /\ log[1].tag = "request"
     /\ log[2].ev = "read" /\ log[2].n = 4
     /\ Len(Got(log[2])) = 4
     /\ Got(log[2]) # OKAY) =>
        /\ result.kind = "raise"
        /\ result.exc = "RuntimeError"

\* push is taking the step after its DATA loop (lines 125-127).
PushDoneStep == op.name = "push" /\ pc = "push_done" /\ pc' # "push_done"

\* The step wrote one packet: the tag DONE and a 4-byte field that reads
\* back, little-endian, as w.
WroteDone(w) ==
    /\ Len(log') = Len(log) + 1
    /\ SubSeq(log', 1, Len(log)) = log
    /\ LET e == log'[Len(log')]
       IN  /\ e.ev = "write" /\ e.tag = "DONE"
           /\ BLen(e.data) = 8 /\ e.n = 8
           /\ Leading(e.data, 4) = DONE
           /\ UnpackLE32(Leading(Drop(e.data, 4), 4)) = [hi |-> w.hi, lo |-> w.lo]

\* mtime lies in [0, 2^32 - 1].
InRange32(w) == w.hi >= 0 /\ w.hi <= 65535 /\ w.lo >= 0 /\ w.lo <= 65535

\* C18 as claimed: the step after the DATA loop, unless the socket refuses
\* the write, writes exactly one DONE packet for every mtime value: the
\* supplied mtime when it lies in [0, 2^32 - 1], the current time when none
\* was supplied.
C18_DoneForEveryMtime ==
    [][(PushDoneStep /\ result'.exc # "OSError") =>
          /\ Len(Writes("DONE")') = 1
          /\ (~op.mtime.none /\ InRange32(op.mtime)) => WroteDone(op.mtime)
          /\ op.mtime.none => \E now \in Clock : WroteDone(now)
    ]_vars

\* C18, amended: the DONE packet is the tag DONE followed by mtime as a
\* 4-byte little-endian unsigned integer.  Unless the socket refuses the
\* write, the step after the DATA loop writes exactly one DONE packet when
\* mtime lies in [0, 2^32 - 1] (the field decodes back to mtime) or was not
\* supplied (the field holds the current time); for a supplied mtime outside
\* that range it raises struct.error and writes no DONE packet.  No push
\* writes more than one DONE packet.
C18_DonePacket ==
    /\ [][(PushDoneStep /\ result'.exc # "OSError") =>
            /\ (~op.mtime.none /\ InRange32(op.mtime)) =>
                  (WroteDone(op.mtime) /\ Len(Writes("DONE")') = 1)
            /\ op.mtime.none =>
                  ((\E now \in Clock : WroteDone(now)) /\ Len(Writes("DONE")') = 1)
            /\ (~op.mtime.none /\ ~InRange32(op.mtime)) =>
                  /\ result' = Raises("struct.error", <<>>)
                  /\ log' = log
                  /\ Writes("DONE")' = <<>>
                  /\ pc' = "done"
       ]_vars
    /\ [](Len(Writes("DONE")) <= 1)

\* C18 witness: push(.., mtime=2^32 - 1) has written DONE followed by
\* FF FF FF FF.
C18_Witness ==
    /\ op.name = "push"
    /\ op.mtime = [none |-> FALSE, hi |-> 65535, lo |-> 65535]
    /\ Len(Writes("DONE")) = 1
    /\ Writes("DONE")[1].data = Lit(DONE \o <<255, 255, 255, 255>>)

\* The number a string of decimal digits denotes.
RECURSIVE DecVal(_)
DecVal(s) == IF s = <<>> THEN 0
             ELSE 10 * DecVal(SubSeq(s, 1, Len(s) - 1)) + (s[Len(s)] - 48)

\* The literal bytes of a blob that is one literal run.
Bytes(x) == Leading(x, BLen(x))

\* C19: every SEND header push writes is the tag SEND, a 4-byte field and
\* the request string; the request string is the UTF-8 bytes of the target
\* path, a comma and mode in decimal digits (no sign, no leading zero), and
\* the field reads back, little-endian, as the request string's byte length.
C19_SendHeader ==
    \A i \in 1..Len(log) :
        (log[i].ev = "write" /\ log[i].tag = "SEND") =>
            LET data == Bytes(log[i].data)
                path == Utf8(Bytes(op.cmd))
                request == SubSeq(data, 9, Len(data))
                digits == SubSeq(request, Len(path) + 2, Len(request))
            IN  /\ op.name = "push"
                /\ Len(data) = BLen(log[i].data)
                /\ Len(data) >= 8
                /\ SubSeq(data, 1, 4) = SEND
                /\ UnpackLE32(SubSeq(data, 5, 8)) = Wide(Len(request))
                /\ Len(request) >= Len(path) + 2
                /\ SubSeq(request, 1, Len(path)) = path
                /\ request[Len(path) + 1] = 44
                /\ \A k \in 1..Len(digits) : digits[k] \in 48..57
                /\ digits[1] # 48
                /\ DecVal(digits) = op.mode
                /\ (op.mode = 33261 => digits = <<51, 51, 50, 54, 49>>)

\* C19 witness: push('/' + U+00E9, ..) with the default mode wrote SEND,
\* the length 9 and the nine bytes of '/\xc3\xa9,33261'.
C19_Witness ==
    /\ op.name = "push"
    /\ Len(Writes("SEND")) = 1
    /\ Writes("SEND")[1].data =
          Lit(SEND \o <<9, 0, 0, 0>> \o <<47, 195, 169, 44, 51, 51, 50, 54, 49>>)

\* buf is exactly one length-prefixed text: four hex digits of value L, then
\* L bytes and nothing more.
LengthPrefixed(buf) ==
    /\ Len(buf) >= 4
    /\ \A i \in 1..4 : IsHexByte(buf[i])
    /\ Len(buf) = 4 + IntBase16(SubSeq(buf, 1, 4))

\* buf is exactly a status followed by one length-prefixed text.
StatusAndText(status, buf) ==
    /\ Len(buf) >= 8
    /\ SubSeq(buf, 1, 4) = status
    /\ LengthPrefixed(SubSeq(buf, 5, Len(buf)))

\* The bytes the reads of a sequence of socket events delivered, in order.
RECURSIVE Delivered(_)
Delivered(es) == IF es = <<>> THEN <<>> ELSE Got(es[1]) \o Delivered(Tail(es))

\* The step's socket events are reads only, each one given all the bytes
\* it asked for, and together they took exactly the bytes buf.
ReadExactly(buf) ==
    /\ Len(log') >= Len(log)
    /\ SubSeq(log', 1, Len(log)) = log
    /\ LET new == SubSeq(log', Len(log) + 1, Len(log'))
       IN  /\ \A i \in 1..Len(new) :
                 new[i].ev = "read" /\ new[i].n = Len(Got(new[i]))
           /\ Delivered(new) = buf

\* C20: when the pending bytes are exactly a well-formed reply, the client
\* consumes exactly those bytes.  A transport selection answered OKAY reads
\* the four status bytes, returns the Session and leaves it open with
\* nothing pending; any request answered FAIL plus a length-prefixed
\* message reads exactly the reply and ends; devices / connect / disconnect
\* answered OKAY plus a length-prefixed payload read the status, then
\* exactly the length field and the payload, and end with nothing pending.
C20_FrameBoundary ==
    [][/\ (/\ pc = "status"
           /\ op.name \in {"device", "usbdevice", "emulator"}
           /\ inbuf = OKAY) =>
              /\ pc' = "done"
              /\ result' = Returns("self", <<>>)
              /\ ReadExactly(inbuf)
              /\ inbuf' = <<>>
              /\ sockOpen'
       /\ (pc = "status" /\ StatusAndText(FAIL, inbuf)) =>
              /\ pc' = "done"
              /\ result'.kind = "raise"
              /\ ReadExactly(inbuf)
              /\ inbuf' = <<>>
       /\ (/\ pc = "status"
           /\ op.name \in {"devices", "connect", "disconnect"}
           /\ StatusAndText(OKAY, inbuf)) =>
              /\ pc' = "response"
              /\ ReadExactly(OKAY)
              /\ inbuf' = SubSeq(inbuf, 5, Len(inbuf))
       /\ (pc = "response" /\ LengthPrefixed(inbuf)) =>
              /\ pc' = "done"
              /\ ReadExactly(inbuf)
              /\ inbuf' = <<>>
    ]_vars

\* C20 witness: device(..) answered OKAY has returned the Session, open,
\* with the four status bytes read and nothing pending.
C20_Witness ==
    /\ pc = "done"
    /\ op.name = "device"
    /\ result = Returns("self", <<>>)
    /\ log[Len(log)] = Read(OKAY, 4)
    /\ Len(log) = 2
    /\ inbuf = <<>>
    /\ sockOpen

====
